---- MODULE Spec2Model ----
(***************************************************************************)
(* Model of neural_chat/config.py (configuration records and their         *)
(* construction-time validation) and neural_chat/models/base_model.py      *)
(* (the abstract chat-model backend).                                      *)
(*                                                                         *)
(* Python values are encoded as follows.                                   *)
(*   - Optional[T]: the empty set is None, the singleton {v} is the value  *)
(*     v.                                                                  *)
(*   - a str that the code splits is a sequence of text tokens; the token  *)
(*     "." is the dot character and every other token is a run of          *)
(*     characters without a dot.                                           *)
(*   - list and dict objects live in `heap` and are held by reference      *)
(*     (their index in `heap`), so that aliasing is visible.               *)
(*   - an `assert` raises AssertionError, as it does when the interpreter  *)
(*     runs without -O.                                                    *)
(***************************************************************************)
EXTENDS Integers, Sequences, FiniteSets, TLC

\* ------------------------------------------------------------------------
\* Bounds of the model
\* ------------------------------------------------------------------------
MaxPathLen == 2

\* ------------------------------------------------------------------------
\* Values
\* ------------------------------------------------------------------------
None == {}
Some(v) == {v}
IsNone(o) == o = {}
Val(o) == CHOOSE v \in o : TRUE

Tokens == {".", "a", "csv", "json", "txt"}
Strings == UNION {[1..n -> Tokens] : n \in 0..MaxPathLen}
OptStrings == {None} \cup {Some(s) : s \in Strings}
DatasetNames == {None, Some("squad")}

\* The installed version of the `datasets` package: None when the package
\* is not installed, else <<major, minor, micro>>.
InstalledVersions == {None, Some(<<1, 18, 4>>), Some(<<2, 0, 0>>), Some(<<2, 14, 5>>)}
NotInstalled == None

NoError == [type |-> "", msg |-> ""]
Error(t, m) == [type |-> t, msg |-> m]

VARIABLES
    datasets_version,   \* environment: installed `datasets` distribution
    dta,                \* DataTrainingArguments(...) call: {} or {outcome}
    margs,              \* ModelArguments(...) call: {} or {outcome}
    heap,               \* list and dict objects, by reference
    fta,                \* FinetuneArguments instances
    opt,                \* OptimizationConfig instances
    ftc,                \* FinetuningConfig instances
    ncc,                \* NeuralChatConfig(...) call: {} or {outcome}
    bm,                 \* BaseModel subclass instantiation: {} or {frame}
    ret                 \* the last BaseModel method call and its result

data_vars == <<datasets_version, dta, margs>>
config_vars == <<heap, fta, opt, ftc, ncc>>
model_vars == <<bm, ret>>
vars == <<datasets_version, dta, margs, heap, fta, opt, ftc, ncc, bm, ret>>

\* ------------------------------------------------------------------------
\* str.split(".") and the extension test of __post_init__
\* ------------------------------------------------------------------------
RECURSIVE Split(_)
Split(s) ==
    IF s = <<>> THEN << <<>> >>
    ELSE LET r == Split(Tail(s)) IN
         IF Head(s) = "." THEN << <<>> >> \o r
         ELSE << <<Head(s)>> \o Head(r) >> \o Tail(r)

Last(q) == q[Len(q)]

\* split(".")[1] in place of split(".")[-1]
Extension_SecondSegment(path) ==
    IF Len(Split(path)) >= 2 THEN Split(path)[2] ELSE <<>>

Extension(path) == Last(Split(path))

ValidExtensions == { <<"csv">>, <<"json">>, <<"txt">> }

\* ------------------------------------------------------------------------
\* require_version("datasets>=2.0.0", ...)
\* ------------------------------------------------------------------------
\* > in place of >=
VersionGE_Strict(v, w) ==
    \/ v[1] > w[1]
    \/ v[1] = w[1] /\ v[2] > w[2]
    \/ v[1] = w[1] /\ v[2] = w[2] /\ v[3] > w[3]

VersionGE(v, w) ==
    \/ v[1] > w[1]
    \/ v[1] = w[1] /\ v[2] > w[2]
    \/ v[1] = w[1] /\ v[2] = w[2] /\ v[3] >= w[3]

MinDatasetsVersion == <<2, 0, 0>>

RequireVersion(installed) ==
    IF IsNone(installed)
    THEN Error("PackageNotFoundError",
               "The datasets>=2.0.0 distribution was not found")
    ELSE IF VersionGE(Val(installed), MinDatasetsVersion)
    THEN NoError
    ELSE Error("ImportError",
               "datasets>=2.0.0 is required. The streaming feature requires datasets>=2.0.0")

\* ------------------------------------------------------------------------
\* DataTrainingArguments
\* ------------------------------------------------------------------------
DataTrainingArgumentsFields ==
    [dataset_name : DatasetNames,
     train_file : OptStrings,
     validation_file : OptStrings,
     streaming : BOOLEAN,
     overwrite_cache : BOOLEAN]

Outcome(self, err, evaluated) ==
    [status |-> IF err = NoError THEN "returned" ELSE "raised",
     self |-> self, error |-> err, evaluated |-> evaluated]

\* __post_init__ without the test for a missing data source
PostInit_NoSourceCheck(self, installed) ==
    LET e1 == IF self.streaming THEN <<"require_version">> ELSE <<>>
        e3 == IF IsNone(self.train_file) THEN e1 ELSE Append(e1, "train_file")
        e4 == IF IsNone(self.validation_file) THEN e3 ELSE Append(e3, "validation_file")
    IN  IF self.streaming /\ RequireVersion(installed) # NoError
        THEN Outcome(self, RequireVersion(installed), e1)
        ELSE IF ~IsNone(self.train_file)
                /\ Extension(Val(self.train_file)) \notin ValidExtensions
        THEN Outcome(self, Error("AssertionError",
                 "train_file should be a csv, a json or a txt file."), e3)
        ELSE IF ~IsNone(self.validation_file)
                /\ Extension(Val(self.validation_file)) \notin ValidExtensions
        THEN Outcome(self, Error("AssertionError",
                 "validation_file should be a csv, a json or a txt file."), e4)
        ELSE Outcome(self, NoError, e4)

\* __post_init__ with the data-source test moved before require_version
PostInit_SourceFirst(self, installed) ==
    LET e1 == <<"data_source">>
        e2 == IF self.streaming THEN Append(e1, "require_version") ELSE e1
        e3 == IF IsNone(self.train_file) THEN e2 ELSE Append(e2, "train_file")
        e4 == IF IsNone(self.validation_file) THEN e3 ELSE Append(e3, "validation_file")
    IN  IF IsNone(self.dataset_name) /\ IsNone(self.train_file)
                /\ IsNone(self.validation_file)
        THEN Outcome(self, Error("ValueError",
                 "Need either a dataset name or a training/validation file."), e1)
        ELSE IF self.streaming /\ RequireVersion(installed) # NoError
        THEN Outcome(self, RequireVersion(installed), e2)
        ELSE IF ~IsNone(self.train_file)
                /\ Extension(Val(self.train_file)) \notin ValidExtensions
        THEN Outcome(self, Error("AssertionError",
                 "train_file should be a csv, a json or a txt file."), e3)
        ELSE IF ~IsNone(self.validation_file)
                /\ Extension(Val(self.validation_file)) \notin ValidExtensions
        THEN Outcome(self, Error("AssertionError",
                 "validation_file should be a csv, a json or a txt file."), e4)
        ELSE Outcome(self, NoError, e4)

\* __post_init__: the outcome carries the error raised (NoError when the
\* method returns) and the checks evaluated, in order of evaluation.
PostInit(self, installed) ==
    LET e1 == IF self.streaming THEN <<"require_version">> ELSE <<>>
        e2 == Append(e1, "data_source")
        e3 == IF IsNone(self.train_file) THEN e2 ELSE Append(e2, "train_file")
        e4 == IF IsNone(self.validation_file) THEN e3 ELSE Append(e3, "validation_file")
    IN  IF self.streaming /\ RequireVersion(installed) # NoError
        THEN Outcome(self, RequireVersion(installed), e1)
        ELSE IF IsNone(self.dataset_name) /\ IsNone(self.train_file)
                /\ IsNone(self.validation_file)
        THEN Outcome(self, Error("ValueError",
                 "Need either a dataset name or a training/validation file."), e2)
        ELSE IF ~IsNone(self.train_file)
                /\ Extension(Val(self.train_file)) \notin ValidExtensions
        THEN Outcome(self, Error("AssertionError",
                 "train_file should be a csv, a json or a txt file."), e3)
        ELSE IF ~IsNone(self.validation_file)
                /\ Extension(Val(self.validation_file)) \notin ValidExtensions
        THEN Outcome(self, Error("AssertionError",
                 "validation_file should be a csv, a json or a txt file."), e4)
        ELSE Outcome(self, NoError, e4)

DataTrainingArguments(self) == PostInit(self, datasets_version)

\* ------------------------------------------------------------------------
\* ModelArguments: model_name_or_path is a field without a default
\* ------------------------------------------------------------------------
ModelNames == {None, Some("gpt2")}     \* None: the argument is not passed

ModelArguments(model_name_or_path) ==
    IF IsNone(model_name_or_path)
    THEN [status |-> "raised",
          error |-> Error("TypeError",
              "missing 1 required positional argument: model_name_or_path"),
          model_name_or_path |-> None, model_revision |-> "main",
          use_fast_tokenizer |-> TRUE]
    ELSE [status |-> "returned", error |-> NoError,
          model_name_or_path |-> model_name_or_path, model_revision |-> "main",
          use_fast_tokenizer |-> TRUE]


\* ------------------------------------------------------------------------
\* FinetuneArguments, FinetuningConfig, OptimizationConfig
\* ------------------------------------------------------------------------
MaxFinetuneArguments == 2
MaxOptimizationConfigs == 2
MaxFinetuningConfigs == 1
MaxLoraTargetModules == 3
MaxExcludedPrecisions == 1

\* The objects built by the default expressions `[]` and `{}` of
\* OptimizationConfig.__init__ when the function is defined.
DefaultExcludedPrecisions == 1
DefaultRecipes == 2

\* default_factory=lambda: ["q", "v"], called by every construction that
\* does not pass lora_target_modules: the list is a new object in h.
FinetuneArguments(h, lora_rank) ==
    [heap |-> Append(h, <<"q", "v">>),
     self |-> [lora_rank |-> IF IsNone(lora_rank) THEN 8 ELSE Val(lora_rank),
               lora_alpha |-> 32,
               lora_target_modules |-> Len(h) + 1,
               peft |-> "lora"]]

FinetuningConfig(model_args, data_args, training_args, finetune_args) ==
    [model_args |-> model_args, data_args |-> data_args,
     training_args |-> training_args, finetune_args |-> finetune_args]

\* precision and excluded_precisions are None when the caller leaves them
\* out; excluded_precisions is otherwise a reference to the caller's list.
OptimizationConfig(precision, excluded_precisions) ==
    [mode |-> "latency", device |-> "cpu", backend |-> "ipex",
     approach |-> "static",
     precision |-> IF IsNone(precision) THEN "bf16" ELSE Val(precision),
     excluded_precisions |-> IF IsNone(excluded_precisions)
                             THEN DefaultExcludedPrecisions
                             ELSE Val(excluded_precisions),
     op_type_dict |-> None, op_name_dict |-> None,
     recipes |-> DefaultRecipes]

\* ------------------------------------------------------------------------
\* NeuralChatConfig
\* ------------------------------------------------------------------------
\* DataTrainingArguments() with every field at its default
DefaultDataTrainingArguments ==
    [dataset_name |-> None, train_file |-> None, validation_file |-> None,
     streaming |-> FALSE, overwrite_cache |-> FALSE]

\* the conditional expression always takes its else branch
Truthy_Never(o) == FALSE

\* An instance of a class that defines neither __bool__ nor __len__ is true.
Truthy(o) == ~IsNone(o)

\* The else-branch of the finetune_config expression: the keyword arguments
\* of FinetuningConfig(...) are evaluated left to right, and the first one
\* that raises ends the evaluation.  `constructed` lists the constructors
\* called.  TrainingArguments is the class of the transformers library; its
\* object is opaque here.
DefaultFinetuningConfig(h, f, c, installed) ==
    LET ma == ModelArguments(None)
        da == PostInit(DefaultDataTrainingArguments, installed)
        fa == FinetuneArguments(h, None)
    IN  IF ma.status = "raised"
        THEN [status |-> "raised", error |-> ma.error,
              constructed |-> <<"ModelArguments">>,
              heap |-> h, fta |-> f, ftc |-> c]
        ELSE IF da.status = "raised"
        THEN [status |-> "raised", error |-> da.error,
              constructed |-> <<"ModelArguments", "DataTrainingArguments">>,
              heap |-> h, fta |-> f, ftc |-> c]
        ELSE [status |-> "returned", error |-> NoError,
              constructed |-> <<"ModelArguments", "DataTrainingArguments",
                                "TrainingArguments", "FinetuneArguments",
                                "FinetuningConfig">>,
              heap |-> fa.heap, fta |-> Append(f, fa.self),
              ftc |-> Append(c, FinetuningConfig(ma, da.self,
                                    "TrainingArguments()", Len(f) + 1))]

\* NeuralChatConfig.__init__ with finetune_config and optimize_config each
\* None or a reference (index in c, in o) to the caller's object.
NeuralChatConfig(h, f, c, o, installed, finetune_config, optimize_config) ==
    LET args == [finetune_config |-> finetune_config,
                 optimize_config |-> optimize_config]
        ft == IF Truthy(finetune_config)
              THEN [status |-> "returned", error |-> NoError,
                    constructed |-> <<>>, heap |-> h, fta |-> f, ftc |-> c]
              ELSE DefaultFinetuningConfig(h, f, c, installed)
        ftref == IF Truthy(finetune_config) THEN Val(finetune_config)
                 ELSE Len(ft.ftc)
    IN  IF ft.status = "raised"
        THEN [status |-> "raised", error |-> ft.error, args |-> args,
              constructed |-> ft.constructed,
              self |-> None,
              heap |-> h, fta |-> f, ftc |-> c, opt |-> o]
        ELSE IF Truthy(optimize_config)
        THEN [status |-> "returned", error |-> NoError, args |-> args,
              constructed |-> ft.constructed,
              self |-> Some([model_name_or_path |-> "meta-llama/Llama-2-70b-hf",
                             device |-> "auto", backend |-> "auto",
                             server_mode |-> TRUE,
                             finetune_config |-> ftref,
                             optimize_config |-> Val(optimize_config)]),
              heap |-> ft.heap, fta |-> ft.fta, ftc |-> ft.ftc, opt |-> o]
        ELSE [status |-> "returned", error |-> NoError, args |-> args,
              constructed |-> Append(ft.constructed, "OptimizationConfig"),
              self |-> Some([model_name_or_path |-> "meta-llama/Llama-2-70b-hf",
                             device |-> "auto", backend |-> "auto",
                             server_mode |-> TRUE,
                             finetune_config |-> ftref,
                             optimize_config |-> Len(o) + 1]),
              heap |-> ft.heap, fta |-> ft.fta, ftc |-> ft.ftc,
              opt |-> Append(o, OptimizationConfig(None, None))]

\* ------------------------------------------------------------------------
\* Actions: argument records
\* ------------------------------------------------------------------------
NewDataTrainingArguments ==
    /\ dta = {}
    /\ \E self \in DataTrainingArgumentsFields :
          dta' = {DataTrainingArguments(self)}
    /\ UNCHANGED <<datasets_version, margs>>
    /\ UNCHANGED <<config_vars, model_vars>>

NewModelArguments ==
    /\ margs = {}
    /\ \E m \in ModelNames : margs' = {ModelArguments(m)}
    /\ UNCHANGED <<datasets_version, dta>>
    /\ UNCHANGED <<config_vars, model_vars>>

\* The environment changes between constructions: `datasets` is installed,
\* upgraded, downgraded or removed.
InstallDatasets ==
    /\ dta = {}
    /\ margs = {}
    /\ \E v \in InstalledVersions \ {datasets_version} : datasets_version' = v
    /\ UNCHANGED <<dta, margs>>
    /\ UNCHANGED <<config_vars, model_vars>>

\* The caller drops the object, or handles the exception.
DiscardData ==
    /\ dta # {} \/ margs # {}
    /\ dta' = {}
    /\ margs' = {}
    /\ UNCHANGED datasets_version
    /\ UNCHANGED <<config_vars, model_vars>>

\* ------------------------------------------------------------------------
\* Actions: configuration objects
\* ------------------------------------------------------------------------
\* FinetuneArguments()
NewFinetuneArguments ==
    /\ Len(fta) < MaxFinetuneArguments
    /\ LET r == FinetuneArguments(heap, None) IN
          /\ heap' = r.heap
          /\ fta' = Append(fta, r.self)
    /\ UNCHANGED <<opt, ftc, ncc>>
    /\ UNCHANGED <<data_vars, model_vars>>

\* OptimizationConfig() or OptimizationConfig(precision="int8")
NewOptimizationConfig ==
    /\ Len(opt) < MaxOptimizationConfigs
    /\ \E precision \in {None, Some("int8")} :
          opt' = Append(opt, OptimizationConfig(precision, None))
    /\ UNCHANGED <<heap, fta, ftc, ncc>>
    /\ UNCHANGED <<data_vars, model_vars>>

\* FinetuningConfig(model_args, data_args, training_args, finetune_args)
\* from argument objects the caller has built
NewFinetuningConfig ==
    /\ Len(ftc) < MaxFinetuningConfigs
    /\ \E i \in 1..Len(fta) :
          ftc' = Append(ftc, FinetuningConfig(
                     ModelArguments(Some("gpt2")),
                     PostInit([DefaultDataTrainingArguments
                                  EXCEPT !.dataset_name = Some("squad")],
                              datasets_version).self,
                     "TrainingArguments(output_dir)", i))
    /\ UNCHANGED <<heap, fta, opt, ncc>>
    /\ UNCHANGED <<data_vars, model_vars>>

\* args.lora_target_modules.append("k")
AppendLoraTargetModule ==
    /\ \E i \in 1..Len(fta) :
          LET l == fta[i].lora_target_modules IN
          /\ Len(heap[l]) < MaxLoraTargetModules
          /\ heap' = [heap EXCEPT ![l] = Append(@, "k")]
    /\ UNCHANGED <<fta, opt, ftc, ncc>>
    /\ UNCHANGED <<data_vars, model_vars>>

\* config.excluded_precisions.append("fp16")
AppendExcludedPrecision ==
    /\ \E i \in 1..Len(opt) :
          LET l == opt[i].excluded_precisions IN
          /\ Len(heap[l]) < MaxExcludedPrecisions
          /\ heap' = [heap EXCEPT ![l] = Append(@, "fp16")]
    /\ UNCHANGED <<fta, opt, ftc, ncc>>
    /\ UNCHANGED <<data_vars, model_vars>>

\* config.recipes["smooth_quant"] = True; the dict is modelled by its keys
SetRecipe ==
    /\ \E i \in 1..Len(opt) :
          LET l == opt[i].recipes IN
          /\ \A k \in 1..Len(heap[l]) : heap[l][k] # "smooth_quant"
          /\ heap' = [heap EXCEPT ![l] = Append(@, "smooth_quant")]
    /\ UNCHANGED <<fta, opt, ftc, ncc>>
    /\ UNCHANGED <<data_vars, model_vars>>

\* NeuralChatConfig(finetune_config=..., optimize_config=...), each argument
\* left out or an object the caller has built
NewNeuralChatConfig ==
    /\ ncc = {}
    /\ \E fc \in {None} \cup {Some(i) : i \in 1..Len(ftc)},
          oc \in {None} \cup {Some(i) : i \in 1..Len(opt)} :
          LET r == NeuralChatConfig(heap, fta, ftc, opt, datasets_version, fc, oc) IN
          /\ Len(r.opt) <= MaxOptimizationConfigs
          /\ Len(r.ftc) <= MaxFinetuningConfigs
          /\ Len(r.fta) <= MaxFinetuneArguments
          /\ heap' = r.heap
          /\ fta' = r.fta
          /\ ftc' = r.ftc
          /\ opt' = r.opt
          /\ ncc' = {[status |-> r.status, error |-> r.error, args |-> r.args,
                      constructed |-> r.constructed, self |-> r.self]}
    /\ UNCHANGED <<data_vars, model_vars>>

\* The caller drops the NeuralChatConfig, or handles the exception.
DiscardNeuralChatConfig ==
    /\ ncc # {}
    /\ ncc' = {}
    /\ UNCHANGED <<heap, fta, opt, ftc>>
    /\ UNCHANGED <<data_vars, model_vars>>

\* ------------------------------------------------------------------------
\* BaseModel
\* ------------------------------------------------------------------------
AbstractMethods == {"init_model", "predict_stream", "predict"}

\* A subclass of BaseModel: the abstract methods it overrides, the
\* parameters of its init_model besides self ("config" as BaseModel declares
\* it, "config=None", or ""), and what the body of its init_model does.
\* Python does not hold an override to the signature of the method it
\* overrides.
Subclasses ==
    [implements : SUBSET AbstractMethods,
     init_params : {"config", "config=None", ""},
     init_body : {"return_pair", "return_none", "return_triple", "raise"},
     handles : {<<"model_a", "tokenizer_a">>, <<"model_b", "tokenizer_b">>}]

\* The instance when BaseModel.__init__ is entered: an attribute that is
\* not set is None here.
NewFrame(cls) ==
    [cls |-> cls, pc |-> "init_model", status |-> "running", error |-> NoError,
     value |-> None, model |-> None, tokenizer |-> None, init_calls |-> 0]

Raise(f, err) == [f EXCEPT !.pc = "done", !.status = "raised", !.error = err]

\* cls(): ABCMeta refuses a class that leaves an abstract method abstract;
\* otherwise __init__ runs.
Instantiate(cls) ==
    IF cls.implements # AbstractMethods
    THEN Raise(NewFrame(cls),
               Error("TypeError", "Can't instantiate abstract class"))
    ELSE NewFrame(cls)

\* self.init_model() inside a try whose handler leaves both handles None
CallInitModel_Fallback(f) ==
    IF f.cls.init_params = "config" \/ f.cls.init_body = "raise"
    THEN [f EXCEPT !.pc = "done", !.status = "constructed",
                   !.init_calls = IF f.cls.init_params = "config" THEN @ ELSE @ + 1]
    ELSE [f EXCEPT !.init_calls = @ + 1,
                   !.pc = "store",
                   !.value = CASE f.cls.init_body = "return_pair" ->
                                    Some(f.cls.handles)
                               [] f.cls.init_body = "return_triple" ->
                                    Some(Append(f.cls.handles, "config"))
                               [] OTHER -> None]

\* The right-hand side of the assignment of __init__: self.init_model(),
\* called without an argument.  init_calls counts the executions of the
\* body of init_model; value is what the body returned.
CallInitModel(f) ==
    IF f.cls.init_params = "config"
    THEN Raise(f, Error("TypeError",
               "init_model() missing 1 required positional argument: config"))
    ELSE IF f.cls.init_body = "raise"
    THEN Raise([f EXCEPT !.init_calls = @ + 1],
               Error("OSError", "raised by init_model"))
    ELSE [f EXCEPT !.init_calls = @ + 1,
                   !.pc = "store",
                   !.value = CASE f.cls.init_body = "return_pair" ->
                                    Some(f.cls.handles)
                               [] f.cls.init_body = "return_triple" ->
                                    Some(Append(f.cls.handles, "config"))
                               [] OTHER -> None]

\* The left-hand side: the value is unpacked into two targets, then
\* self.model and self.tokenizer are stored.
StoreHandles(f) ==
    IF IsNone(f.value)
    THEN Raise(f, Error("TypeError", "cannot unpack non-iterable NoneType object"))
    ELSE IF Len(Val(f.value)) # 2
    THEN Raise(f, Error("ValueError", "too many values to unpack (expected 2)"))
    ELSE [f EXCEPT !.pc = "done", !.status = "constructed",
                   !.model = Some(Val(f.value)[1]),
                   !.tokenizer = Some(Val(f.value)[2])]

\* return bool(model_path)
Match_NonEmptyPath(self, model_path) == model_path # <<>>

\* BaseModel.match
Match(self, model_path) == TRUE

\* BaseModel.get_default_conv_template: get_conv_template("one_shot")
GetDefaultConvTemplate(self, model_path) == "one_shot"

\* ------------------------------------------------------------------------
\* Actions: BaseModel
\* ------------------------------------------------------------------------
NewBaseModel ==
    /\ bm = {}
    /\ \E cls \in Subclasses : bm' = {Instantiate(cls)}
    /\ UNCHANGED ret
    /\ UNCHANGED <<data_vars, config_vars>>

InitCallInitModel ==
    /\ \E f \in bm :
          /\ f.pc = "init_model"
          /\ bm' = {CallInitModel(f)}
    /\ UNCHANGED ret
    /\ UNCHANGED <<data_vars, config_vars>>

InitStoreHandles ==
    /\ \E f \in bm :
          /\ f.pc = "store"
          /\ bm' = {StoreHandles(f)}
    /\ UNCHANGED ret
    /\ UNCHANGED <<data_vars, config_vars>>

\* instance.match(model_path), on an instance the constructor returned
CallMatch ==
    /\ \E f \in bm, model_path \in Strings :
          /\ f.status = "constructed"
          /\ ret' = {[op |-> "match", model_path |-> model_path,
                      value |-> Match(f, model_path)]}
    /\ UNCHANGED bm
    /\ UNCHANGED <<data_vars, config_vars>>

\* instance.get_default_conv_template(model_path)
CallGetDefaultConvTemplate ==
    /\ \E f \in bm, model_path \in Strings :
          /\ f.status = "constructed"
          /\ ret' = {[op |-> "get_default_conv_template",
                      model_path |-> model_path,
                      template |-> GetDefaultConvTemplate(f, model_path)]}
    /\ UNCHANGED bm
    /\ UNCHANGED <<data_vars, config_vars>>

\* The caller drops the instance, or handles the exception.
DiscardBaseModel ==
    /\ \E f \in bm : f.pc = "done"
    /\ bm' = {}
    /\ ret' = {}
    /\ UNCHANGED <<data_vars, config_vars>>

\* ------------------------------------------------------------------------
\* Specifications
\* ------------------------------------------------------------------------
Init ==
    /\ datasets_version = NotInstalled
    /\ dta = {}
    /\ margs = {}
    /\ heap = << <<>>, <<>> >>
    /\ fta = <<>>
    /\ opt = <<>>
    /\ ftc = <<>>
    /\ ncc = {}
    /\ bm = {}
    /\ ret = {}

DataNext ==
    \/ InstallDatasets
    \/ NewDataTrainingArguments
    \/ NewModelArguments
    \/ DiscardData

SpecData == Init /\ [][DataNext]_vars

ConfigNext ==
    \/ NewFinetuneArguments
    \/ NewOptimizationConfig
    \/ NewFinetuningConfig
    \/ AppendLoraTargetModule
    \/ AppendExcludedPrecision
    \/ SetRecipe
    \/ NewNeuralChatConfig
    \/ DiscardNeuralChatConfig

SpecConfig == Init /\ [][ConfigNext]_vars

ModelNext ==
    \/ NewBaseModel
    \/ InitCallInitModel
    \/ InitStoreHandles
    \/ CallMatch
    \/ CallGetDefaultConvTemplate
    \/ DiscardBaseModel

SpecModel == Init /\ [][ModelNext]_vars

\* ------------------------------------------------------------------------
\* Vocabulary of the properties, stated without the operators of the model
\* ------------------------------------------------------------------------
VersionNumber(v) == v[1] * 10000 + v[2] * 100 + v[3]
MeetsMinimum(installed) ==
    ~IsNone(installed) /\ VersionNumber(Val(installed)) >= 20000
VersionErrors == {"ImportError", "PackageNotFoundError"}

HasDot(p) == \E i \in 1..Len(p) : p[i] = "."
LastDot(p) == CHOOSE i \in 1..Len(p) :
                  p[i] = "." /\ \A j \in (i + 1)..Len(p) : p[j] # "."
AfterLastDot(p) == SubSeq(p, LastDot(p) + 1, Len(p))
\* the text after the last dot, or the whole path when it has no dot
LastSegment(p) == IF HasDot(p) THEN AfterLastDot(p) ELSE p
Recognized == { <<"csv">>, <<"json">>, <<"txt">> }

NoDataSource(a) ==
    IsNone(a.dataset_name) /\ IsNone(a.train_file) /\ IsNone(a.validation_file)
VersionUnmet(a) == a.streaming /\ ~MeetsMinimum(datasets_version)

\* ------------------------------------------------------------------------
\* C3
\* ------------------------------------------------------------------------
\* C3 as stated: every DataTrainingArguments construction with dataset_name,
\* train_file and validation_file all None fails with ValueError, whatever
\* the other fields are.
C3_NoSourceAlwaysValueError ==
    \A r \in dta :
        NoDataSource(r.self) =>
            r.status = "raised" /\ r.error.type = "ValueError"

\* C3 as amended: every DataTrainingArguments construction with dataset_name,
\* train_file and validation_file all None fails and produces no object;
\* the error is the missing-data-source ValueError, except that with
\* streaming true and the datasets>=2.0.0 requirement unmet it is the
\* version-requirement error, which is raised first.
C3_NoSourceFails ==
    \A r \in dta :
        NoDataSource(r.self) =>
            /\ r.status = "raised"
            /\ IF VersionUnmet(r.self)
               THEN r.error.type \in VersionErrors
               ELSE r.error.type = "ValueError"

C3_Witness ==
    \E r \in dta :
        /\ NoDataSource(r.self)
        /\ r.self.streaming
        /\ r.self.overwrite_cache
        /\ MeetsMinimum(datasets_version)
        /\ r.error.type = "ValueError"

\* ------------------------------------------------------------------------
\* C4
\* ------------------------------------------------------------------------
GivenFiles(a) == {Val(f) : f \in {a.train_file, a.validation_file} \ {None}}

\* C4 as stated: when train_file or validation_file is set and the text
\* after its last dot is not csv, json or txt (a path without a dot
\* included, dataset_name set or not), construction fails with
\* AssertionError; and with streaming false and a data source set,
\* construction succeeds when every file path given has one of the three
\* extensions.
C4_BadExtensionAlwaysAssertionError ==
    \A r \in dta :
        /\ (\E p \in GivenFiles(r.self) :
                ~HasDot(p) \/ AfterLastDot(p) \notin Recognized)
              => r.status = "raised" /\ r.error.type = "AssertionError"
        /\ (/\ ~r.self.streaming
            /\ ~NoDataSource(r.self)
            /\ \A p \in GivenFiles(r.self) :
                   HasDot(p) /\ AfterLastDot(p) \in Recognized)
              => r.status = "returned"

\* C4 as amended: when the version requirement does not fail (streaming is
\* false or datasets>=2.0.0 is installed) and train_file or validation_file
\* is set and its last dot-separated segment (the text after its last dot,
\* or the whole path when it has no dot) is not exactly csv, json or txt,
\* dataset_name set or not, construction fails with AssertionError; and
\* with streaming false and a data source set, construction succeeds when
\* the last segment of every file path given is csv, json or txt.
C4_BadLastSegmentAssertionError ==
    \A r \in dta :
        /\ (/\ ~VersionUnmet(r.self)
            /\ \E p \in GivenFiles(r.self) : LastSegment(p) \notin Recognized)
              => r.status = "raised" /\ r.error.type = "AssertionError"
        /\ (/\ ~r.self.streaming
            /\ ~NoDataSource(r.self)
            /\ \A p \in GivenFiles(r.self) : LastSegment(p) \in Recognized)
              => r.status = "returned"

C4_Witness ==
    \E r \in dta :
        /\ ~IsNone(r.self.dataset_name)
        /\ r.self.train_file = Some(<<"a", "csv">>)
        /\ r.self.validation_file = Some(<<".", "csv">>)
        /\ r.status = "raised"
        /\ r.error.type = "AssertionError"

\* ------------------------------------------------------------------------
\* C5
\* ------------------------------------------------------------------------
WellFormed(a) ==
    /\ ~NoDataSource(a)
    /\ \A p \in GivenFiles(a) : LastSegment(p) \in Recognized

\* C5: a well-formed DataTrainingArguments construction with streaming true
\* succeeds exactly when datasets>=2.0.0 is installed and otherwise fails
\* with the version-requirement error; with streaming false the version
\* requirement is not evaluated and no version-requirement error is raised.
C5_StreamingNeedsVersion ==
    \A r \in dta :
        /\ (r.self.streaming /\ WellFormed(r.self)) =>
              IF MeetsMinimum(datasets_version)
              THEN r.status = "returned"
              ELSE r.status = "raised" /\ r.error.type \in VersionErrors
        /\ ~r.self.streaming =>
              /\ r.error.type \notin VersionErrors
              /\ \A i \in 1..Len(r.evaluated) : r.evaluated[i] # "require_version"

C5_Witness ==
    \E r \in dta :
        /\ r.self.streaming
        /\ WellFormed(r.self)
        /\ datasets_version = Some(<<1, 18, 4>>)
        /\ r.error.type = "ImportError"

\* ------------------------------------------------------------------------
\* C10
\* ------------------------------------------------------------------------
ValidationOrder == <<"require_version", "data_source", "train_file", "validation_file">>

\* the check is reached by a run of __post_init__ that no earlier check ends
Evaluates(c, a) ==
    CASE c = "require_version" -> a.streaming
      [] c = "data_source" -> TRUE
      [] c = "train_file" -> ~IsNone(a.train_file)
      [] c = "validation_file" -> ~IsNone(a.validation_file)

Fails(c, a) ==
    CASE c = "require_version" -> VersionUnmet(a)
      [] c = "data_source" -> NoDataSource(a)
      [] c = "train_file" ->
            ~IsNone(a.train_file) /\ LastSegment(Val(a.train_file)) \notin Recognized
      [] c = "validation_file" ->
            /\ ~IsNone(a.validation_file)
            /\ LastSegment(Val(a.validation_file)) \notin Recognized

ErrorTypes(c) ==
    CASE c = "require_version" -> VersionErrors
      [] c = "data_source" -> {"ValueError"}
      [] OTHER -> {"AssertionError"}

Failing(a) == {i \in 1..4 : Fails(ValidationOrder[i], a)}
FirstFailing(a) == CHOOSE i \in Failing(a) : \A j \in Failing(a) : i <= j
EvaluatedUpTo(a, n) ==
    SelectSeq(SubSeq(ValidationOrder, 1, n), LAMBDA c : Evaluates(c, a))

\* C10: DataTrainingArguments validation raises the error of the first
\* failing check in the order version requirement, data source, train_file
\* extension, validation_file extension, and evaluates no check after it;
\* it returns only when no check fails.
C10_FirstFailingCheckWins ==
    \A r \in dta :
        IF Failing(r.self) = {}
        THEN r.status = "returned" /\ r.evaluated = EvaluatedUpTo(r.self, 4)
        ELSE LET i == FirstFailing(r.self) IN
             /\ r.status = "raised"
             /\ r.error.type \in ErrorTypes(ValidationOrder[i])
             /\ r.evaluated = EvaluatedUpTo(r.self, i)
             /\ r.evaluated[Len(r.evaluated)] = ValidationOrder[i]
             /\ i = 3 => r.error.msg = "train_file should be a csv, a json or a txt file."
             /\ i = 4 => r.error.msg = "validation_file should be a csv, a json or a txt file."

C10_Witness ==
    \E r \in dta :
        /\ r.self.streaming
        /\ ~MeetsMinimum(datasets_version)
        /\ NoDataSource(r.self)
        /\ r.error.type \in VersionErrors
        /\ r.evaluated = <<"require_version">>

\* ------------------------------------------------------------------------
\* C1
\* ------------------------------------------------------------------------
\* C1: NeuralChatConfig() with no arguments succeeds; its finetune_config
\* holds default FinetuneArguments (lora_rank 8, lora_alpha 32) and its
\* optimize_config is a default OptimizationConfig (mode "latency",
\* precision "bf16").
C1_DefaultNeuralChatConfig ==
    \A r \in ncc :
        (IsNone(r.args.finetune_config) /\ IsNone(r.args.optimize_config)) =>
            /\ r.status = "returned"
            /\ ~IsNone(r.self)
            /\ LET self == Val(r.self)
                   fa == fta[ftc[self.finetune_config].finetune_args]
                   oc == opt[self.optimize_config]
               IN  /\ ftc[self.finetune_config].model_args.status = "returned"
                   /\ fa.lora_rank = 8
                   /\ fa.lora_alpha = 32
                   /\ oc.mode = "latency"
                   /\ oc.precision = "bf16"

\* ------------------------------------------------------------------------
\* C8
\* ------------------------------------------------------------------------
\* the instances through which a step changes the value of a container field
Changed(insts, field) ==
    {i \in 1..Len(insts) : heap'[insts[i][field]] # heap[insts[i][field]]}

\* C8: every step that builds a FinetuneArguments() leaves it with
\* lora_target_modules ["q", "v"] and peft "lora"; every step that builds an
\* OptimizationConfig without overrides leaves it with empty
\* excluded_precisions and recipes; and no step changes the list or mapping
\* seen through more than one instance.
C8_DefaultsNotShared ==
    [][/\ Len(fta') > Len(fta) =>
             /\ heap'[fta'[Len(fta')].lora_target_modules] = <<"q", "v">>
             /\ fta'[Len(fta')].peft = "lora"
       /\ (Len(opt') > Len(opt) /\ opt'[Len(opt')].precision = "bf16") =>
             /\ heap'[opt'[Len(opt')].excluded_precisions] = <<>>
             /\ heap'[opt'[Len(opt')].recipes] = <<>>
       /\ Cardinality(Changed(fta, "lora_target_modules")) <= 1
       /\ Cardinality(Changed(opt, "excluded_precisions")) <= 1
       /\ Cardinality(Changed(opt, "recipes")) <= 1
      ]_vars

\* ------------------------------------------------------------------------
\* C9
\* ------------------------------------------------------------------------
IsPrefix(q, qq) == Len(q) <= Len(qq) /\ SubSeq(qq, 1, Len(q)) = q

C2_DeclaredSignatureConstructs ==
    \A f \in bm :
        (/\ f.pc = "done"
         /\ f.cls.implements = {"init_model", "predict", "predict_stream"}
         /\ f.cls.init_params = "config"
         /\ f.cls.init_body = "return_pair") =>
            /\ f.status = "constructed"
            /\ f.init_calls = 1
            /\ f.model = Some(f.cls.handles[1])
            /\ f.tokenizer = Some(f.cls.handles[2])

\* ------------------------------------------------------------------------
\* C6
\* ------------------------------------------------------------------------
\* C6: when the call of init_model fails during construction, the
\* construction ends with that error (not another one, not a success), the
\* body of init_model has not run a second time, and model and tokenizer
\* are both unset; at no point is one of the two set without the other.
C6_InitModelFailureIsFatal ==
    \A f \in bm :
        /\ IsNone(f.model) <=> IsNone(f.tokenizer)
        /\ f.init_calls <= 1
        /\ f.status = "raised" =>
              IsNone(f.model) /\ IsNone(f.tokenizer) /\ f.error # NoError
        /\ (/\ f.pc = "done"
            /\ f.cls.implements = {"init_model", "predict", "predict_stream"}
            /\ f.cls.init_params = "config" \/ f.cls.init_body = "raise") =>
              /\ f.status = "raised"
              /\ f.error.type = IF f.cls.init_params = "config"
                                THEN "TypeError" ELSE "OSError"

C6_Witness ==
    \E f \in bm :
        /\ f.cls.init_params = "config=None"
        /\ f.cls.init_body = "raise"
        /\ f.status = "raised"
        /\ f.init_calls = 1
        /\ f.error.type = "OSError"
        /\ IsNone(f.model)

\* ------------------------------------------------------------------------
\* C7
\* ------------------------------------------------------------------------
\* C7: every call of the inherited match returns true, whatever the path
\* and whatever model and tokenizer the instance holds, and changes nothing
\* but the caller's result.
C7_MatchAlwaysTrue ==
    [][\A r \in ret' :
          (ret' # ret /\ r.op = "match") =>
              /\ r.value = TRUE
              /\ UNCHANGED <<bm, data_vars, config_vars>>
      ]_vars

C7_Witness ==
    \E r \in ret, f \in bm :
        /\ r.op = "match"
        /\ r.model_path = <<>>
        /\ r.value = TRUE
        /\ f.model = Some("model_b")

====
